---- MODULE Spec2Model ----
(***************************************************************************)
(* TryForEachConcurrent (futures-util, try_stream/try_for_each_concurrent) *)
(* as a state machine.  One orchestrator value `self` holds the fields of  *)
(* the struct (stream, futures, limit), the position of the running poll   *)
(* (pc), the local made_progress_this_iter, and history fields that record *)
(* what poll has observed and returned.  The source, the units and the     *)
(* FuturesUnordered pool are collaborators modelled by their contracts.    *)
(***************************************************************************)
EXTENDS Integers, Sequences, FiniteSets, TLC

\* Bounds of the model.
MaxItems == 3
MaxLimit == 2

VARIABLES
    items,      \* what the source yields, in order: "ok" is Ok(i), "err" is Err(i)
    endless,    \* TRUE when the source repeats items forever instead of ending
    f,          \* the factory: f[i] is what the unit made from item i resolves with
    limitArg,   \* the `limit: Option<usize>` handed to new
    twinArg,    \* the `limit` handed to new for the second value
    self,       \* the TryForEachConcurrent value
    twin        \* a second TryForEachConcurrent over the same source and schedule

vars == <<items, endless, f, limitArg, twinArg, self, twin>>

----------------------------------------------------------------------------
\* Option and Poll values.
None == [some |-> FALSE]
Some(x) == [some |-> TRUE, val |-> x]

Pending == [tag |-> "Pending"]
ReadyNone == [tag |-> "ReadyNone"]
ReadyOk(v) == [tag |-> "ReadyOk", val |-> v]
ReadyErr(e) == [tag |-> "ReadyErr", err |-> e]
NotPolled == [tag |-> "NotPolled"]

\* Error values: the error of source position p, the error of the unit of item i.
StreamErr(p) == [from |-> "stream", at |-> p]
UnitErr(i) == [from |-> "unit", at |-> i]

----------------------------------------------------------------------------
\* The source adapter: a cursor over items, ready or not, with the task's
\* waker registered when it last answered Pending.
NewStream(b) == [pos |-> 1, ready |-> b, waker |-> FALSE]

\* TryStream::try_poll_next; b is whether the source is ready again right
\* after handing out a value.
\* An endless source starts over after its last item.
NextPos(pos) == IF endless /\ pos = Len(items) THEN 1 ELSE pos + 1

try_poll_next(st, b) ==
    IF ~st.ready
    THEN [res |-> Pending, st |-> [st EXCEPT !.waker = TRUE]]
    ELSE IF st.pos > Len(items)
    THEN [res |-> ReadyNone, st |-> [st EXCEPT !.ready = b, !.waker = FALSE]]
    ELSE [res |-> IF items[st.pos] = "ok" THEN ReadyOk(st.pos)
                  ELSE ReadyErr(StreamErr(st.pos)),
          st  |-> [pos |-> NextPos(st.pos), ready |-> b, waker |-> FALSE]]

----------------------------------------------------------------------------
\* The completion pool (FuturesUnordered): a map from unit id to the unit's
\* status: "new" (pushed, never polled), "parked" (polled, answered Pending,
\* will wake the task), "ready" (resolved, not yet handed out).
EmptyPool == [i \in {} |-> "new"]

len(futs) == Cardinality(DOMAIN futs)

is_empty(futs) == DOMAIN futs = {}

push(futs, id, s) == [i \in DOMAIN futs \cup {id} |-> IF i = id THEN s ELSE futs[i]]

ReadyUnits(futs) == {i \in DOMAIN futs : futs[i] = "ready"}

\* FuturesUnordered::poll_next; pick is the resolved unit the pool hands out.
poll_next_unpin(futs, pick) ==
    IF is_empty(futs)
    THEN [res |-> ReadyNone, futs |-> futs]
    ELSE IF pick \in ReadyUnits(futs)
    THEN [res  |-> IF f[pick] = "ok" THEN ReadyOk(pick) ELSE ReadyErr(UnitErr(pick)),
          futs |-> [i \in DOMAIN futs \ {pick} |-> futs[i]]]
    ELSE [res |-> Pending, futs |-> [i \in DOMAIN futs |-> "parked"]]

----------------------------------------------------------------------------
\* TryForEachConcurrent::new.  `limit` = 0 gets ignored.
NonZeroUsize_new(n) == IF n = 0 THEN None ELSE Some(n)

\* Variant: a zero limit is kept as a limit of zero.
and_then_NonZero_keep(limit) == limit

and_then_NonZero(limit) == IF limit.some THEN NonZeroUsize_new(limit.val) ELSE None

new(limit, b) ==
    [stream  |-> Some(NewStream(b)),
     limit   |-> and_then_NonZero(limit),
     futures |-> EmptyPool,
     pc      |-> "idle",
     made_progress_this_iter |-> FALSE,
     woken   |-> TRUE,
     started |-> FALSE,
     finished |-> FALSE,
     ret     |-> NotPolled,
     srcObs  |-> "none",
     poolObs |-> "none",
     pulled  |-> << >>,
     launched |-> << >>,
     harvested |-> {},
     seen    |-> << >>,
     discarded |-> EmptyPool,
     errs    |-> << >>]

\* Variant: `||` in place of `&&`.
is_terminated_or(o) == ~o.stream.some \/ is_empty(o.futures)

\* FusedFuture::is_terminated.
is_terminated(o) == ~o.stream.some /\ is_empty(o.futures)

----------------------------------------------------------------------------
\* Future::poll, one pass of its loop in two steps.

\* Variant: the loop starts with the poll of the pool.
Enter_harvestFirst(o) ==
    [o EXCEPT !.pc = "harvest", !.woken = FALSE, !.started = TRUE,
              !.srcObs = "none", !.poolObs = "none"]

\* The caller invokes poll: control is at the top of the loop.
Enter(o) ==
    [o EXCEPT !.pc = "launch", !.woken = FALSE, !.started = TRUE,
              !.srcObs = "none", !.poolObs = "none"]

\* Variant: the limit is not consulted.
LimitAllows_always(limit, current_len) == TRUE

\* Variant: one slot of the limit is never used.
LimitAllows_strict(limit, current_len) ==
    IF limit.some THEN limit.val > current_len + 1 ELSE TRUE

\* Variant: `>=` in place of `>`.
LimitAllows_ge(limit, current_len) ==
    IF limit.some THEN limit.val >= current_len ELSE TRUE

\* `self.limit().map(|limit| limit.get() > current_len).unwrap_or(true)`
LimitAllows(limit, current_len) ==
    IF limit.some THEN limit.val > current_len ELSE TRUE

\* History of pulls and launches: the last MaxItems entries, which for a
\* source that ends is the whole history.
Log(seq, x) ==
    IF Len(seq) < MaxItems THEN Append(seq, x) ELSE Append(Tail(seq), x)

\* `return Poll::Ready(..)` / `return Poll::Pending`
Return(o, r) ==
    [o EXCEPT !.pc = "idle", !.ret = r,
              !.finished = @ \/ r.tag \in {"ReadyOk", "ReadyErr"},
              !.errs = IF r.tag = "ReadyErr" THEN Append(@, r.err) ELSE @]

\* Variant: the source's error is treated as the end of the source.
StreamFail_swallow(o, e) == [o EXCEPT !.stream = None]

\* Variant: the pool is not replaced by a fresh one.
StreamFail_keepFutures(o, e) ==
    Return([o EXCEPT !.stream = None], ReadyErr(e))

\* Variant: the stream is not set to None.
StreamFail_keepStream(o, e) ==
    Return([o EXCEPT !.futures = EmptyPool, !.discarded = o.futures], ReadyErr(e))

\* The Err arm of the source match: empty the stream and futures, return.
StreamFail(o, e) ==
    Return([o EXCEPT !.stream = None, !.futures = EmptyPool, !.discarded = o.futures],
           ReadyErr(e))

\* Variant: the pool is not replaced by a fresh one.
FutureFail_keepFutures(o, e) ==
    Return([o EXCEPT !.stream = None], ReadyErr(e))

\* Variant: the stream is not set to None.
FutureFail_keepStream(o, e) ==
    Return([o EXCEPT !.futures = EmptyPool, !.discarded = o.futures], ReadyErr(e))

\* The Err arm of the pool match: empty the stream and futures, return.
FutureFail(o, e) ==
    Return([o EXCEPT !.stream = None, !.futures = EmptyPool, !.discarded = o.futures],
           ReadyErr(e))

\* Variant: the unit is never made nor pushed.
PushNext_skip(o, elem, s) == o

\* `let next_future = (self.f())(elem); self.futures().push(next_future);`
\* s is the status the new unit starts in.
PushNext(o, elem, s) ==
    [o EXCEPT !.futures = push(@, elem, s), !.launched = Log(@, elem)]

\* History: every error value a poll result has carried, in order.
Observe(o, res) ==
    IF res.tag = "ReadyErr" THEN [o EXCEPT !.seen = Append(@, res.err)] ELSE o

\* Variant: the stream is left in place when it reports its end.
StreamEnd_keep(o) == o

\* Variant: the end of the stream counts as progress.
StreamEnd_progress(o) == [o EXCEPT !.stream = None, !.made_progress_this_iter = TRUE]

\* Variant: the end of the stream also replaces the pool by a fresh one.
StreamEnd_drop(o) == [o EXCEPT !.stream = None, !.futures = EmptyPool]

\* The `Poll::Ready(None)` arm of the source match: `self.stream().set(None)`.
StreamEnd(o) == [o EXCEPT !.stream = None]

\* Lines 67-101: reset the flag, then try and pull an item from the stream.
LaunchStep(o, b, s) ==
    LET o0 == [o EXCEPT !.made_progress_this_iter = FALSE, !.pc = "harvest",
                        !.poolObs = "none"]
        current_len == len(o.futures)
    IN  IF ~LimitAllows(o.limit, current_len)
        THEN [o0 EXCEPT !.srcObs = "skipped"]
        ELSE IF ~o.stream.some
        THEN [o0 EXCEPT !.srcObs = "absent", !.stream = None]
        ELSE LET p == try_poll_next(o.stream.val, b)
                 poll_res == p.res
                 o1 == Observe([o0 EXCEPT !.srcObs = poll_res.tag, !.stream = Some(p.st)],
                               poll_res)
             IN  CASE poll_res.tag = "ReadyOk" ->
                        PushNext([o1 EXCEPT !.made_progress_this_iter = TRUE,
                                            !.pulled = Log(@, poll_res.val)],
                                 poll_res.val, s)
                   [] poll_res.tag = "ReadyNone" -> StreamEnd(o1)
                   [] poll_res.tag = "Pending" -> o1
                   [] poll_res.tag = "ReadyErr" -> StreamFail(o1, poll_res.err)

\* Variant: poll returns Pending after one pass, whatever the pass did.
LoopEnd_once(x) == Return(x, Pending)

\* Variant: the test of the flag is inverted.
LoopEnd_inverted(x) ==
    IF x.made_progress_this_iter
    THEN Return(x, Pending)
    ELSE [x EXCEPT !.pc = "launch"]

\* `if !made_progress_this_iter { return Poll::Pending; }`, else loop again.
LoopEnd(x) ==
    IF ~x.made_progress_this_iter
    THEN Return(x, Pending)
    ELSE [x EXCEPT !.pc = "launch"]

\* Variant: an empty pool ends the future whether or not the stream is gone.
PoolEmpty_always(o) == Return(o, ReadyOk("unit"))

\* Variant: the test of the stream is inverted.
PoolEmpty_inverted(o) ==
    IF o.stream.some THEN Return(o, ReadyOk("unit")) ELSE LoopEnd(o)

\* The `Poll::Ready(None)` arm of the pool match.
PoolEmpty(o) ==
    IF ~o.stream.some THEN Return(o, ReadyOk("unit")) ELSE LoopEnd(o)

\* Lines 103-123: poll the pool, then leave or repeat the loop.
HarvestStep(o, pick) ==
    LET r == poll_next_unpin(o.futures, pick)
        o1 == Observe([o EXCEPT !.poolObs = r.res.tag, !.futures = r.futs], r.res)
    IN  CASE r.res.tag = "ReadyOk" ->
               LoopEnd([o1 EXCEPT !.made_progress_this_iter = TRUE,
                               !.harvested = @ \cup {r.res.val}])
          [] r.res.tag = "ReadyNone" -> PoolEmpty(o1)
          [] r.res.tag = "Pending" -> LoopEnd(o1)
          [] r.res.tag = "ReadyErr" -> FutureFail(o1, r.res.err)

----------------------------------------------------------------------------
\* The collaborators' own progress.

\* The source becomes ready; it wakes the task if its waker is registered.
SourceWake(o) ==
    IF o.stream.some /\ ~o.stream.val.ready
    THEN [o EXCEPT !.stream = Some([o.stream.val EXCEPT !.ready = TRUE, !.waker = FALSE]),
                   !.woken = @ \/ o.stream.val.waker]
    ELSE o

\* The unit of item i resolves; it wakes the task if it is parked.
UnitWake(o, i) ==
    IF i \in DOMAIN o.futures /\ o.futures[i] # "ready"
    THEN [o EXCEPT !.futures[i] = "ready", !.woken = @ \/ (o.futures[i] = "parked")]
    ELSE o

----------------------------------------------------------------------------
\* Inputs.
LimitArgs == {None} \cup {Some(n) : n \in 0..MaxLimit}

Sources == UNION {[1..n -> {"ok", "err"}] : n \in 0..MaxItems}

Factories(src) == {g \in [1..Len(src) -> {"ok", "err"}] :
                      \A i \in 1..Len(src) : src[i] = "err" => g[i] = "ok"}

InitInputs ==
    /\ items \in Sources
    /\ f \in Factories(items)
    /\ endless = FALSE

Init ==
    /\ InitInputs
    /\ limitArg \in LimitArgs
    /\ \E b \in BOOLEAN : self = new(limitArg, b)
    /\ twinArg = limitArg
    /\ twin = self

----------------------------------------------------------------------------
\* Actions on one orchestrator value.
Picks(o) == IF ReadyUnits(o.futures) = {} THEN {0} ELSE ReadyUnits(o.futures)

Resume == 
    /\ self.pc = "idle"
    /\ self' = Enter(self)

Launch(b, s) ==
    /\ self.pc = "launch"
    /\ self' = LaunchStep(self, b, s)

Harvest(pick) ==
    /\ self.pc = "harvest"
    /\ self' = HarvestStep(self, pick)

SourceReady ==
    /\ self.stream.some
    /\ ~self.stream.val.ready
    /\ self' = SourceWake(self)

UnitReady(i) ==
    /\ i \in DOMAIN self.futures
    /\ self.futures[i] # "ready"
    /\ self' = UnitWake(self, i)

Frame == UNCHANGED <<items, endless, f, limitArg, twinArg>>

PollResume == Resume /\ Frame /\ UNCHANGED twin
PollLaunch == (\E b \in BOOLEAN, s \in {"new", "ready"} : Launch(b, s)) /\ Frame /\ UNCHANGED twin
PollHarvest == (\E pick \in Picks(self) : Harvest(pick)) /\ Frame /\ UNCHANGED twin
EnvSource == SourceReady /\ Frame /\ UNCHANGED twin
EnvUnit == (\E i \in 1..MaxItems : UnitReady(i)) /\ Frame /\ UNCHANGED twin

Next ==
    \/ PollResume
    \/ PollLaunch
    \/ PollHarvest
    \/ EnvSource
    \/ EnvUnit

Spec == Init /\ [][Next]_vars

----------------------------------------------------------------------------
\* Two values side by side: same source, same factory, same schedule of
\* readiness, each constructed with a limit that asks for no throttling.
BigLimit == MaxItems + 1

UnboundedArgs == {None, Some(0), Some(BigLimit)}

TwinInit ==
    /\ InitInputs
    /\ limitArg \in UnboundedArgs
    /\ twinArg \in UnboundedArgs
    /\ \E b \in BOOLEAN : self = new(limitArg, b) /\ twin = new(twinArg, b)

TwinResume == Resume /\ twin' = Enter(twin) /\ Frame
TwinLaunch ==
    /\ \E b \in BOOLEAN, s \in {"new", "ready"} :
          Launch(b, s) /\ twin' = LaunchStep(twin, b, s)
    /\ Frame
TwinHarvest ==
    /\ \E pick \in Picks(self) : Harvest(pick) /\ twin' = HarvestStep(twin, pick)
    /\ Frame
TwinSource == SourceReady /\ twin' = SourceWake(twin) /\ Frame
TwinUnit ==
    /\ \E i \in 1..MaxItems : UnitReady(i) /\ twin' = UnitWake(twin, i)
    /\ Frame

TwinNext ==
    \/ TwinResume
    \/ TwinLaunch
    \/ TwinHarvest
    \/ TwinSource
    \/ TwinUnit

TwinSpec == TwinInit /\ [][TwinNext]_vars

----------------------------------------------------------------------------
\* The scheduler: poll runs to its return, the caller polls again after a
\* wake, the source and every unit in the pool eventually become ready.
Fairness ==
    /\ WF_vars(PollResume /\ self.woken)
    /\ WF_vars(PollLaunch)
    /\ WF_vars(PollHarvest)
    /\ WF_vars(EnvSource)
    /\ WF_vars(EnvUnit)

LiveSpec == Init /\ [][Next]_vars /\ Fairness

\* A source that never ends (it repeats its items), under a limit of one
\* unit at a time, with the same scheduler.
EndlessInit ==
    /\ items \in Sources
    /\ Len(items) >= 1
    /\ f \in Factories(items)
    /\ endless = TRUE
    /\ limitArg = Some(1)
    /\ twinArg = limitArg
    /\ \E b \in BOOLEAN : self = new(limitArg, b)
    /\ twin = self

EndlessSpec == EndlessInit /\ [][Next]_vars /\ Fairness

----------------------------------------------------------------------------
\* Vocabulary of the properties.
Returned(r) == self.pc = "idle" /\ self.ret.tag = r

Failed == Len(self.errs) > 0

Unresolved(futs) == {i \in DOMAIN futs : futs[i] # "ready"}

\* A step of poll that leaves the launch step.
LaunchDone == self.pc = "launch" /\ self'.pc # "launch"

\* No pull, no factory call and no harvest happens in this step.
NoMoreWork ==
    /\ self'.pulled = self.pulled
    /\ self'.launched = self.launched
    /\ self'.harvested = self.harvested

----------------------------------------------------------------------------
\* C1: with a bounded limit n >= 1, the pool never holds more than n units,
\* in any state, also in the middle of a poll right after a push.
C1_CeilingRespected ==
    self.limit.some => (self.limit.val >= 1 /\ len(self.futures) <= self.limit.val)

\* C1 witness: a bounded pool that a push has just filled to its limit.
C1_Witness ==
    /\ self.limit.some
    /\ self.pc = "harvest"
    /\ self.srcObs = "ReadyOk"
    /\ len(self.futures) = self.limit.val
    /\ self.limit.val >= 2

\* C2 as stated: poll returns Ok only with the stream gone, the pool empty
\* and every unit ever launched harvested with Ok.
C2_Original ==
    Returned("ReadyOk") =>
        /\ ~self.stream.some
        /\ is_empty(self.futures)
        /\ \A i \in 1..Len(self.launched) : self.launched[i] \in self.harvested

\* C2 amended: poll returns Ok only with the stream gone and the pool empty;
\* and unless an earlier poll has already returned an error, the source was
\* pulled to its end and every unit ever launched was harvested with Ok.
C2_SuccessOnlyWhenDone ==
    Returned("ReadyOk") =>
        /\ ~self.stream.some
        /\ is_empty(self.futures)
        /\ ~Failed =>
              /\ self.srcObs \in {"ReadyNone", "absent"}
              /\ Len(self.pulled) = Len(items)
              /\ self.harvested = 1..Len(items)
              /\ \A i \in 1..Len(self.launched) : self.launched[i] \in self.harvested

\* C2 witness: Ok returned after several units were launched and harvested.
C2_Witness ==
    /\ Returned("ReadyOk")
    /\ ~Failed
    /\ Len(self.launched) >= 2
    /\ self.harvested = 1..Len(items)

\* C3: when the pool hands out a unit's error, poll returns that error at
\* once, the pool is emptied with the other units unharvested, the stream is
\* None, and from then on nothing is pulled, launched or harvested.
C3_UnitErrorFailsFast ==
    /\ [](self.poolObs = "ReadyErr" =>
            /\ self.pc = "idle"
            /\ self.ret.tag = "ReadyErr"
            /\ self.ret.err.from = "unit"
            /\ \E k \in 1..Len(self.launched) : self.launched[k] = self.ret.err.at
            /\ self.ret.err.at \notin DOMAIN self.discarded
            /\ f[self.ret.err.at] = "err"
            /\ self.errs = <<self.ret.err>>
            /\ is_empty(self.futures)
            /\ ~self.stream.some
            /\ self.harvested \cap DOMAIN self.discarded = {})
    /\ [][(Failed /\ self.errs[1].from = "unit") => NoMoreWork]_vars

\* C3 witness: a unit's error returned while another unit and a rest of the
\* source were outstanding.
C3_Witness ==
    /\ self.poolObs = "ReadyErr"
    /\ self.pc = "idle"
    /\ len(self.discarded) >= 1
    /\ Len(self.pulled) < Len(items)

\* C4: when the source yields an error after items 1..k were launched, poll
\* returns that error in the same step, without polling the pool, whatever
\* units are still pending, and nothing is pulled afterwards.
C4_SourceErrorFailsFast ==
    /\ [](self.srcObs = "ReadyErr" =>
            /\ self.pc = "idle"
            /\ self.ret = ReadyErr(StreamErr(Len(self.pulled) + 1))
            /\ self.errs = <<self.ret.err>>
            /\ self.poolObs = "none"
            /\ self.harvested \cap DOMAIN self.discarded = {})
    /\ [][(Failed /\ self.errs[1].from = "stream") => NoMoreWork]_vars

\* C4 witness: the source's error returned while a launched unit was still
\* unresolved and the source had more to give, under a bounded limit.
C4_Witness ==
    /\ self.srcObs = "ReadyErr"
    /\ Unresolved(self.discarded) # {}
    /\ Len(self.pulled) >= 1
    /\ Len(self.pulled) + 1 < Len(items)
    /\ self.limit.some

\* C5: once poll has returned an error, the stream is None and the pool is
\* empty, so is_terminated holds, in the state the return leaves and in
\* every later state.
C5_ErrorLeavesTerminated ==
    Failed =>
        /\ ~self.stream.some
        /\ is_empty(self.futures)
        /\ is_terminated(self)

\* C5 witness: an error was returned while units were in the pool.
C5_Witness ==
    /\ Failed
    /\ self.pc = "idle"
    /\ self.ret.tag = "ReadyErr"
    /\ ~is_empty(self.discarded)

\* The launch step is about to poll a source that is ready with an error
\* while the pool, below its limit, holds a resolved unit.
BothReady ==
    /\ LimitAllows(self.limit, len(self.futures))
    /\ self.stream.some
    /\ self.stream.val.ready
    /\ self.stream.val.pos <= Len(items)
    /\ items[self.stream.val.pos] = "err"
    /\ ReadyUnits(self.futures) # {}

\* C6: when the source's error and a resolved unit are both ready in one
\* pass and the pool is below its limit, poll returns the source's error and
\* does not poll the pool; over a whole run at most one error is returned,
\* and it is the first error any poll result carried.
C6_FirstErrorWins ==
    /\ [][(LaunchDone /\ BothReady) =>
            /\ self'.pc = "idle"
            /\ self'.ret = ReadyErr(StreamErr(self.stream.val.pos))
            /\ self'.poolObs = "none"
            /\ self'.harvested = self.harvested]_vars
    /\ [](Len(self.errs) <= 1 /\ self.errs = self.seen)

\* C6 witness: the source's error was returned while an already failed unit
\* sat resolved in the pool.
C6_Witness ==
    /\ Returned("ReadyErr")
    /\ self.ret.err.from = "stream"
    /\ \E i \in ReadyUnits(self.discarded) : f[i] = "err"

\* C7: is_terminated is exactly "stream is None and the pool is empty"; it
\* is false before the first poll; once true it stays true.
C7_TerminationMonotonic ==
    /\ [](is_terminated(self) <=> (~self.stream.some /\ DOMAIN self.futures = {}))
    /\ [](~self.started => ~is_terminated(self))
    /\ [][is_terminated(self) => is_terminated(self')]_vars

\* C7 witness: a poll running on a value that had already finished.
C7_Witness ==
    /\ is_terminated(self)
    /\ self.pc = "harvest"
    /\ self.srcObs = "absent"
    /\ self.ret.tag \in {"ReadyOk", "ReadyErr"}

\* The source yields only Ok items and every unit resolves with Ok.
AllOk == \A i \in 1..Len(items) : items[i] = "ok" /\ f[i] = "ok"

\* C8: with a finite source of Ok items whose units all resolve with Ok,
\* and a scheduler that polls again after every wake, poll eventually
\* returns Ok, every item of the source having been launched exactly once.
C8_EventuallySucceeds ==
    AllOk => <>(/\ Returned("ReadyOk")
                /\ ~Failed
                /\ self.launched = [i \in 1..Len(items) |-> i])

\* C8 witness: Ok returned for an all-Ok source of several items under a
\* bounded limit smaller than the source.
C8_Witness ==
    /\ AllOk
    /\ Returned("ReadyOk")
    /\ self.limit.some
    /\ self.limit.val < Len(items)
    /\ Len(self.launched) = Len(items)

\* What an orchestrator is, apart from its limit.
Core(o) == [o EXCEPT !.limit = None]

\* C9: built with Some(0), with None, or with a limit above the number of
\* items, two values on the same source and schedule stay equal in all but
\* the limit field (same pulls, launches, harvests, returns), a zero limit
\* is stored as None, and no launch step is skipped for the pool's size.
C9_ZeroIsUnbounded ==
    /\ limitArg = Some(0) => self.limit = None
    /\ twinArg = Some(0) => twin.limit = None
    /\ Core(self) = Core(twin)
    /\ self.srcObs # "skipped"
    /\ twin.srcObs # "skipped"

\* C9 witness: a Some(0) value and a large-limit value, both holding two
\* units right after a push.
C9_Witness ==
    /\ limitArg = Some(0)
    /\ twinArg = Some(BigLimit)
    /\ self.pc = "harvest"
    /\ self.srcObs = "ReadyOk"
    /\ len(self.futures) >= 2
    /\ len(twin.futures) >= 2

\* C10: the pulled items are positions 1..k of the source in order, all Ok;
\* the i-th launched unit is the unit of the i-th pulled item and is
\* launched in the step that pulled it; once the stream is None it stays
\* None, nothing more is pulled and a launch step does not poll the source.
C10_PullOrder ==
    /\ [](/\ self.pulled = [i \in 1..Len(self.pulled) |-> i]
          /\ Len(self.pulled) <= Len(items)
          /\ \A i \in 1..Len(self.pulled) : items[i] = "ok"
          /\ self.launched = self.pulled
          /\ DOMAIN self.futures \subseteq 1..Len(self.launched)
          /\ self.stream.some => (self.stream.val.pos = Len(self.pulled) + 1))
    /\ [][~self.stream.some =>
            /\ ~self'.stream.some
            /\ self'.pulled = self.pulled
            /\ LaunchDone => self'.srcObs \in {"skipped", "absent"}]_vars

\* C10 witness: a launch step that ran with the stream None after several
\* items had been pulled and launched.
C10_Witness ==
    /\ ~self.stream.some
    /\ Len(self.pulled) >= 2
    /\ self.pc = "harvest"
    /\ self.srcObs = "absent"

\* The step in which the first call of poll returns.
FirstReturn == self.ret = NotPolled /\ self'.ret # NotPolled

\* C11: over an empty source whose first poll reports the end, the first
\* call of poll returns Ok; no unit is ever made or pushed, whatever the
\* limit.
C11_EmptySource ==
    /\ [](Len(items) = 0 =>
            /\ self.launched = << >>
            /\ self.pulled = << >>
            /\ is_empty(self.futures)
            /\ ~Failed)
    /\ [][(Len(items) = 0 /\ FirstReturn /\ self'.srcObs = "ReadyNone") =>
            self'.ret = ReadyOk("unit")]_vars

\* C11 witness: Ok returned by the first call over an empty source, with a
\* bounded limit.
C11_Witness ==
    /\ Len(items) = 0
    /\ Returned("ReadyOk")
    /\ self.srcObs = "ReadyNone"
    /\ self.limit.some
    /\ self.launched = << >>

\* C12 as stated: every call of poll returns; poll never stays in its loop
\* forever, whatever the source and the units do.
C12_Original == [](self.pc # "idle" => <>(self.pc = "idle"))

\* The pool holds fewer units than the limit, or there is no limit.
Below(o) == ~o.limit.some \/ len(o.futures) < o.limit.val

\* The source is present and ready with an item (Ok or Err) at its cursor.
ItemReady(o) ==
    /\ o.stream.some
    /\ o.stream.val.ready
    /\ o.stream.val.pos <= Len(items)

\* The launch step called try_poll_next.
SourcePolled(o) == o.srcObs \in {"Pending", "ReadyOk", "ReadyNone", "ReadyErr"}

\* A step of poll that leaves the harvest step.
HarvestDone == self.pc = "harvest" /\ self'.pc # "harvest"

\* C13: in every pass the launch step comes before the harvest step; when
\* an Ok item and a resolved unit are both ready and the pool is below its
\* limit, the item is pulled and its unit pushed while the resolved unit
\* stays in the pool, so the pool grows before it shrinks.
C13_LaunchBeforeHarvest ==
    /\ [](self.pc = "harvest" => self.srcObs # "none")
    /\ [](self.poolObs # "none" => self.srcObs # "none")
    /\ [][(/\ LaunchDone
            /\ Below(self)
            /\ ItemReady(self)
            /\ items[self.stream.val.pos] = "ok"
            /\ ReadyUnits(self.futures) # {}) =>
            /\ self'.pc = "harvest"
            /\ self'.srcObs = "ReadyOk"
            /\ self.stream.val.pos \in DOMAIN self'.futures
            /\ len(self'.futures) = len(self.futures) + 1
            /\ self'.harvested = self.harvested
            /\ ReadyUnits(self.futures) \subseteq ReadyUnits(self'.futures)]_vars

\* C13 witness: right after a push, the pool holds the new unit next to an
\* older unit that was already resolved.
C13_Witness ==
    /\ self.pc = "harvest"
    /\ self.srcObs = "ReadyOk"
    /\ Len(self.launched) >= 2
    /\ \E i \in ReadyUnits(self.futures) : i < self.launched[Len(self.launched)]

\* C14: a launch step polls the source exactly when the stream is Some and
\* the pool is below the limit (or there is no limit); otherwise the source,
\* the pool and the pulls are left as they were, so no item leaves the
\* source without a free slot.
C14_PollOnlyBelowLimit ==
    [][LaunchDone =>
        /\ SourcePolled(self') <=> (self.stream.some /\ Below(self))
        /\ ~Below(self) => self'.srcObs = "skipped"
        /\ ~SourcePolled(self') =>
              /\ self'.stream = self.stream
              /\ self'.futures = self.futures
              /\ self'.pulled = self.pulled
        /\ self'.pulled # self.pulled => Below(self)]_vars

\* C14 witness: a launch step skipped the source, which had an item ready,
\* because the pool was full.
C14_Witness ==
    /\ self.pc = "harvest"
    /\ self.srcObs = "skipped"
    /\ ItemReady(self)
    /\ self.limit.some
    /\ len(self.futures) = self.limit.val

\* The pass that just ended pulled an Ok item or harvested an Ok completion.
Progress(o) == o.srcObs = "ReadyOk" \/ o.poolObs = "ReadyOk"

\* The pass that just ended in the harvest step finished the future.
Finish(o) ==
    \/ o.poolObs = "ReadyErr"
    \/ o.poolObs = "ReadyNone" /\ ~o.stream.some

\* C15: a pass records progress iff it pulled an Ok item or harvested an
\* Ok completion; at the end of a pass poll returns Pending iff the pass
\* recorded no progress and did not finish, and loops iff it recorded
\* progress and did not finish.
C15_PendingIffNoProgress ==
    /\ [](Returned("Pending") =>
            /\ ~self.made_progress_this_iter
            /\ self.srcObs \in {"skipped", "ReadyNone", "Pending", "absent"}
            /\ self.poolObs \in {"Pending", "ReadyNone"}
            /\ self.poolObs = "ReadyNone" => self.stream.some)
    /\ [][HarvestDone =>
            /\ self'.made_progress_this_iter <=> Progress(self')
            /\ (self'.pc = "idle" /\ self'.ret = Pending) <=>
                   (~Progress(self') /\ ~Finish(self'))
            /\ self'.pc = "launch" <=> (Progress(self') /\ ~Finish(self'))]_vars

\* C15 witness: Pending returned by a pass in which the source reported its
\* end while units were still unresolved.
C15_Witness ==
    /\ Returned("Pending")
    /\ self.srcObs = "ReadyNone"
    /\ self.poolObs = "Pending"

\* C16: when poll returns Pending, its last pass polled the source if the
\* stream was Some and the pool below the limit, polled the pool if it was
\* not empty, and each poll made answered Pending; at least one was made.
\* Whatever became ready since has woken the task.
C16_NoLostWakeup ==
    Returned("Pending") =>
        /\ (self.stream.some /\ Below(self)) => self.srcObs = "Pending"
        /\ ~is_empty(self.futures) => self.poolObs = "Pending"
        /\ self.srcObs = "Pending" \/ self.poolObs = "Pending"
        /\ ReadyUnits(self.futures) # {} => self.woken
        /\ (self.stream.some /\ self.stream.val.ready /\ Below(self)) => self.woken
        /\ ~self.woken =>
              /\ \A i \in DOMAIN self.futures : self.futures[i] = "parked"
              /\ self.srcObs = "Pending" => self.stream.val.waker

\* C16 witness: Pending returned after both the source and the pool were
\* polled and answered Pending, nothing having become ready since.
C16_Witness ==
    /\ Returned("Pending")
    /\ self.srcObs = "Pending"
    /\ self.poolObs = "Pending"
    /\ ~self.woken

\* The pool holds exactly as many units as the limit allows.
Full(o) == o.limit.some /\ len(o.futures) = o.limit.val

\* C17 as stated: poll never returns Pending in a state where the stream is
\* Some, an item is ready and the pool is below the limit.
C17_Original ==
    [][(HarvestDone /\ self'.pc = "idle" /\ self'.ret = Pending) =>
        ~(ItemReady(self') /\ Below(self'))]_vars

\* C17 amended: when poll returns Pending, the pool is full, or the source
\* answered Pending in the last pass, or the stream is None; a launch step
\* that finds an item ready below the limit takes it, and its pass does not
\* end in Pending.  An item that became ready after the source answered
\* Pending may be waiting at the return: then the task has been woken.
C17_WorkConserving ==
    /\ [](Returned("Pending") =>
            /\ Full(self) \/ self.srcObs = "Pending" \/ ~self.stream.some
            /\ self.srcObs \notin {"ReadyOk", "ReadyErr"}
            /\ (ItemReady(self) /\ Below(self)) =>
                  (self.srcObs = "Pending" /\ self.woken))
    /\ [][(LaunchDone /\ ItemReady(self) /\ Below(self)) =>
            self'.srcObs \in {"ReadyOk", "ReadyErr"}]_vars

\* C17 witness: Pending returned with an item ready below the limit: the
\* source had answered Pending, became ready later, and woke the task.
C17_Witness ==
    /\ Returned("Pending")
    /\ ItemReady(self)
    /\ Below(self)
    /\ self.srcObs = "Pending"
    /\ self.woken
    /\ ~is_empty(self.futures)

\* C18: between calls of poll, is_terminated holds iff an earlier call
\* returned Ready (Ok or Err); a call that returns Pending never leaves the
\* stream None together with an empty pool.
C18_TerminatedIffFinished ==
    /\ self.pc = "idle" => (is_terminated(self) <=> self.finished)
    /\ Returned("Pending") => (~is_terminated(self) /\ ~self.finished)
    /\ ~self.started => ~self.finished

\* C18 witness: Pending returned with the stream None and units still in
\* the pool.
C18_Witness ==
    /\ Returned("Pending")
    /\ ~self.stream.some
    /\ ~is_empty(self.futures)
    /\ ~self.finished

\* C19: a call of poll on a value that has finished polls no source, makes
\* and pushes no unit, leaves stream, futures and limit as they were and
\* returns Ok after one pass, also when the value finished with an error;
\* the error is returned by one call only.
C19_RepollReturnsOk ==
    /\ [][self.finished =>
            /\ self'.stream = self.stream
            /\ self'.futures = self.futures
            /\ self'.limit = self.limit
            /\ NoMoreWork
            /\ self'.errs = self.errs
            /\ self'.seen = self.seen
            /\ LaunchDone => (self'.srcObs = "absent" /\ self'.pc = "harvest")
            /\ HarvestDone =>
                  /\ self'.poolObs = "ReadyNone"
                  /\ self'.pc = "idle"
                  /\ self'.ret = ReadyOk("unit")]_vars
    /\ [](Failed => (self.finished /\ Len(self.errs) = 1))

\* C19 witness: Ok returned by a call made after the value had finished with
\* an error.
C19_Witness ==
    /\ Returned("ReadyOk")
    /\ Failed
    /\ self.srcObs = "absent"
    /\ self.poolObs = "ReadyNone"

\* The elements of a sequence.
Range(seq) == {seq[i] : i \in 1..Len(seq)}

\* C20: before any error is returned, the number of factory calls equals
\* the number of Ok items pulled and equals the successful harvests plus
\* the units in the pool; a unit leaves the pool only when its own
\* completion is harvested or when the pool is discarded on an error.
C20_UnitConservation ==
    /\ [](~Failed =>
            /\ Len(self.launched) = Len(self.pulled)
            /\ Len(self.launched) = Cardinality(self.harvested) + len(self.futures)
            /\ DOMAIN self.futures = Range(self.launched) \ self.harvested)
    /\ [][\A i \in DOMAIN self.futures \ DOMAIN self'.futures :
            \/ /\ HarvestDone
               /\ self.futures[i] = "ready"
               /\ f[i] = "ok"
               /\ self'.poolObs = "ReadyOk"
               /\ self'.harvested = self.harvested \cup {i}
               /\ DOMAIN self'.futures = DOMAIN self.futures \ {i}
            \/ /\ ~Failed
               /\ self'.ret.tag = "ReadyErr"
               /\ self'.errs = <<self'.ret.err>>
               /\ is_empty(self'.futures)]_vars

\* C20 witness: no error so far, one unit harvested and another still in
\* the pool.
C20_Witness ==
    /\ ~Failed
    /\ self.pc = "idle"
    /\ Cardinality(self.harvested) >= 1
    /\ len(self.futures) >= 1

TypeOK ==
    /\ self.pc \in {"idle", "launch", "harvest"}
    /\ DOMAIN self.futures \subseteq 1..Len(items)
====
